---- MODULE Spec2Model ----
(***************************************************************************)
(* Model of the enrollment converter: the CSV reader and the multi-page    *)
(* conversion run of src/csv_converter.py, and the desktop shell of        *)
(* src/main.py.                                                            *)
(*                                                                         *)
(* A text that is drawn is a sequence of one-character strings, so that    *)
(* its length, its characters and its width can be computed.               *)
(*                                                                         *)
(* A CSV file is modelled by what the csv module makes of its physical     *)
(* lines: a line is the sequence of its ';'-separated fields, and a line   *)
(* without any character is the sequence without fields (csv.reader        *)
(* returns [] for it); a line with the one field "" is the line written    *)
(* as two double quotes.                                                   *)
(***************************************************************************)
EXTENDS Integers, Sequences, FiniteSets, TLC

\* ------------------------------------------------------------------ bounds
\* most data lines (lines after the first) of an input file
MaxRows == 2
\* most fields of one data line
MaxFields == 2
\* most characters of a plain text drawn into a box
MaxTextLen == 2
\* most characters of an IBAN
MaxIbanLen == 9
\* the calls of draw_text_in_box made in a row on the same arguments
MaxRuns == 2

\* ------------------------------------------------------------ python values
\* Python's None, as a value distinct from every string of the input
PyNone == "<None>"

\* the cell texts the input files are built from
CellValues == {"", "x"}

\* the first lines of the input files: a line without characters, a line of
\* white space, and header rows mixing mapped, dropped (mapped to None) and
\* unknown columns
Headers ==
    { <<>>,
      <<" ">>,
      <<"Geschlecht">>,
      <<"Teilnehmer-Name", "id">>,
      <<"Geschlecht", "Unbekannt", "IBAN">> }

CsvPath == "in.csv"
PdfPath == "out.pdf"

\* the exceptions a page drawing call can end with
Causes == {"KeyError", "IOError"}

RECURSIVE SeqsUpTo(_, _)
SeqsUpTo(S, n) ==
    IF n = 0 THEN { <<>> }
    ELSE LET shorter == SeqsUpTo(S, n - 1)
         IN  shorter \cup { Append(s, x) : s \in { t \in shorter : Len(t) = n - 1 }, x \in S }

Range(s) == { s[k] : k \in 1..Len(s) }

Max(S) == CHOOSE m \in S : \A n \in S : n <= m

\* ------------------------------------------------------------- key_mapping
key_mapping ==
  << <<"id", PyNone>>,
     <<"sorting", PyNone>>,
     <<"form", PyNone>>,
     <<"date", PyNone>>,
     <<"ip", PyNone>>,
     <<"fd_member", PyNone>>,
     <<"fd_user", PyNone>>,
     <<"fd_member_group", PyNone>>,
     <<"fd_user_group", PyNone>>,
     <<"published", PyNone>>,
     <<"alias", PyNone>>,
     <<"confirmationSent", PyNone>>,
     <<"confirmationDate", PyNone>>,
     <<"be_notes", PyNone>>,
     <<"Angebot", "goal">>,
     <<"von", "from">>,
     <<"bis", "to">>,
     <<"Beitrag", PyNone>>,
     <<"Unterricht", PyNone>>,
     <<"Vorkentnisse", "previous_knowledge">>,
     <<"Geschlecht", "sex">>,
     <<"Teilnehmer-Name", "last_name">>,
     <<"Teilnehmer-Vorname", "first_name">>,
     <<"Geburtsdatum", "birth_date">>,
     <<"Strasse_Teilnehmer", "street">>,
     <<"PLZ_Teilnehmer", "zip">>,
     <<"Ort_Teilnehmer", "city">>,
     <<"Telefon", "phone">>,
     <<"E-Mail", "email">>,
     <<"Beruf", "profession">>,
     <<"Vereinsmitglied", "is_member">>,
     <<"Vereinsmitglied_Mitgliedsnummer", "member_id">>,
     <<"Ermaessigung", "discount">>,
     <<"Familienmitglied", "family_member">>,
     <<"Mitglieder_Haushalt", "household_members">>,
     <<"Geschlecht_Antragsteller", "applicant_sex">>,
     <<"Name-Antragsteller", "applicant_last_name">>,
     <<"Vorname-Antragsteller", "applicant_first_name">>,
     <<"Strasse_Antragsteller", "applicant_street">>,
     <<"PLZ_Antragsteller", "applicant_zip">>,
     <<"Ort_Antragsteller", "applicant_city">>,
     <<"check-Sportgesundheit", PyNone>>,
     <<"check-Datenschutz", PyNone>>,
     <<"check-Coronaschutz", PyNone>>,
     <<"Kontoinhaber", "account_holder">>,
     <<"Kreditinstitut", "bank_name">>,
     <<"IBAN", "iban">>,
     <<"BIC", "bic">> >>

\* ------------------------------------------------------------------ errors
NoError == [kind |-> "none", msg |-> <<>>]

\* raise Kind(f"{prefix}{e}"): the new message is the prefix followed by the
\* message of the exception it reports
Reraise(kind, prefix, e) == [kind |-> kind, msg |-> prefix \o e.msg]

\* a handler that reports a failed page without the exception it caught
PageError_NoCause(e) == [kind |-> "Exception", msg |-> <<"Error creating PDF page">>]

\* generate_pdf_from_dict's handler: raise Exception(f"Error creating PDF page: {e}")
PageError(e) == Reraise("Exception", <<"Error creating PDF page: ">>, e)

\* convert's handler: raise Exception(f"Error in conversion process: {e}")
ConversionProcessError(e) == Reraise("Exception", <<"Error in conversion process: ">>, e)

\* -------------------------------------------------------------- csv reader
\* str.strip() of a physical line leaves nothing
StripsToEmpty(line) ==
    \/ line = <<>>
    \/ Len(line) = 1 /\ line[1] = " "

\* csv.DictReader.__next__ on one row: dict(zip(fieldnames, row)), the
\* surplus fields under restkey None, the missing ones set to restval None.
\* Of a repeated field name the last occurrence decides.
DictRow(fieldnames, row) ==
    LET lf == Len(fieldnames)
        lr == Len(row)
        LastOf(key) == Max({ k \in 1..lf : fieldnames[k] = key })
        named == [ key \in Range(fieldnames) |->
                     IF LastOf(key) <= lr THEN row[LastOf(key)] ELSE PyNone ]
    IN  IF lf < lr
        THEN [ key \in Range(fieldnames) \cup {PyNone} |->
                 IF key = PyNone THEN SubSeq(row, lf + 1, lr) ELSE named[key] ]
        ELSE named

\* a reader that also passes over the rows whose fields are all empty
RECURSIVE SkipBlank_AllEmpty(_)
SkipBlank_AllEmpty(rows) ==
    IF rows = <<>> THEN <<>>
    ELSE IF \A k \in 1..Len(Head(rows)) : Head(rows)[k] = "" THEN SkipBlank_AllEmpty(Tail(rows))
    ELSE <<Head(rows)>> \o SkipBlank_AllEmpty(Tail(rows))

\* list(reader): DictReader passes over the rows without fields
RECURSIVE SkipBlank(_)
SkipBlank(rows) ==
    IF rows = <<>> THEN <<>>
    ELSE IF Head(rows) = <<>> THEN SkipBlank(Tail(rows))
    ELSE <<Head(rows)>> \o SkipBlank(Tail(rows))

\* row.get(original_key, '')
RowGet(row, key, default) ==
    IF key \in DOMAIN row THEN row[key] ELSE default

\* a rename loop without the test "mapped_key is not None"
ConvertRow_KeepNone(row) ==
    LET targets == { key_mapping[k][2] : k \in 1..Len(key_mapping) }
        LastFor(t) == Max({ k \in 1..Len(key_mapping) : key_mapping[k][2] = t })
    IN  [ t \in targets |-> RowGet(row, key_mapping[LastFor(t)][1], "") ]

\* the rename loop over key_mapping.items() for one row
ConvertRow(row) ==
    LET targets == { key_mapping[k][2] : k \in 1..Len(key_mapping) } \ {PyNone}
        LastFor(t) == Max({ k \in 1..Len(key_mapping) : key_mapping[k][2] = t })
    IN  [ t \in targets |-> RowGet(row, key_mapping[LastFor(t)][1], "") ]

\* a reader without the handler for FileNotFoundError: the generic handler reports it
NotFoundError_Generic ==
    Reraise("Exception", <<"Error reading CSV file ", CsvPath, ": ">>,
            [kind |-> "FileNotFoundError", msg |-> <<"No such file or directory: ", CsvPath>>])

\* the reader's handler "except FileNotFoundError": raise FileNotFoundError(f"File '{filename}' not found")
NotFoundError == [kind |-> "FileNotFoundError", msg |-> <<"File ", CsvPath, " not found">>]

\* read_csv_to_dicts_with_validation: the records, or the exception it ends with
read_csv_to_dicts_with_validation(f) ==
    IF ~f.exists
    THEN [ok |-> FALSE, data |-> <<>>, err |-> NotFoundError]
    ELSE IF ~f.decodable
    THEN \* the handler builds UnicodeDecodeError from one argument
         [ok |-> FALSE, data |-> <<>>,
          err |-> [kind |-> "TypeError", msg |-> <<"function takes exactly 5 arguments (1 given)">>]]
    ELSE IF f.lines = <<>> \/ StripsToEmpty(f.lines[1])
    THEN [ok |-> FALSE, data |-> <<>>,
          err |-> Reraise("Exception", <<"Error reading CSV file ", CsvPath, ": ">>,
                          [kind |-> "ValueError", msg |-> <<"File ", CsvPath, " is empty">>])]
    ELSE LET fieldnames == f.lines[1]
             rows == SkipBlank(Tail(f.lines))
         IN  IF fieldnames = <<>>
             THEN [ok |-> FALSE, data |-> <<>>,
                   err |-> Reraise("Exception", <<"Error reading CSV file ", CsvPath, ": ">>,
                                   [kind |-> "ValueError", msg |-> <<"File ", CsvPath, " has no headers">>])]
             ELSE [ok |-> TRUE,
                   data |-> [ k \in 1..Len(rows) |-> ConvertRow(DictRow(fieldnames, rows[k])) ],
                   err |-> NoError]

\* ------------------------------------------------------------------- state
VARIABLES
    file,       \* the input file at csv_path
    pc,         \* where the run of convert() stands
    data_list,  \* convert's data_list
    i,          \* the row the loop of convert() is at (from 1)
    canvas,     \* the drawing surface c: created, current page, finished pages
    out,        \* the file at pdf_path
    calls,      \* the calls convert() has made so far, in order
    err,        \* the exception convert() ended with
    env,                 \* how main.py is started: as a module or directly, with or without reportlab
    gui_pc,              \* the desktop shell: "load" before the module is loaded, then "mainloop"
    convert_csv_to_pdf,  \* the module global of main.py: "function" or PyNone
    selected_file_path,
    save_file_path,
    convert_button,      \* state of the Convert button
    status,              \* text and colour of the status label
    debug_mode,
    dialog,              \* title of the message box the last handler showed, or "none"
    conversions,         \* the calls of the conversion entry point made by the shell
    last,                \* the last handler run by the shell and the dialog answer it got
    argv_len,     \* len(sys.argv) of the command line run of csv_converter.py
    cli_pc,       \* main() of csv_converter.py: "entry", "convert", "exited"
    exit_status,  \* the exit status of the process, -1 while it runs
    printed,      \* the lines printed so far
    fit_in,       \* the field drawn: kind, value, box_width, padding, base_font_size
    text,         \* the argument text of draw_text_in_box
    font_size,    \* the local font_size of draw_text_in_box
    fit_pc,       \* "field", "loop", "draw", "returned"
    c_font,       \* the font size set on the canvas
    measured,     \* the sizes stringWidth was asked for in this call, in order
    draw_log,     \* the drawString calls: the text, the canvas size it is drawn at, font_size then
    chosen,       \* the final font_size of each call that drew
    runs,         \* the calls made so far on these arguments
    data_dict,    \* the record whose check marks are drawn: sex, applicant_sex, discount
    mark_pc,      \* "member_gender", "family_member", "discount", "guardian_gender", "done"
    marks,        \* what is drawn on the lines with check marks: line, op, text, dx, size
    mark_font,    \* the font size of the canvas in these sections
    sheet,        \* the active worksheet of the Excel file: headers, rows
    xl_pc,        \* "start", "read", "pages", "combine", "returned", "raised"
    temp_dir,     \* self.temp_dir and what is on disk there: path, exists, files, rmtree
    xl_data,      \* data of convert_excel_to_pdf
    pdf_files,    \* pdf_files of convert_excel_to_pdf
    output_file,  \* the output file on disk: written, pages
    xl_err,       \* the exception that left convert_excel_to_pdf, if any
    xl_log        \* what happened on disk, in order

csvVars == <<file, pc, data_list, i, canvas, out, calls, err>>
guiVars == <<env, gui_pc, convert_csv_to_pdf, selected_file_path, save_file_path,
             convert_button, status, debug_mode, dialog, conversions, last>>
cliVars == <<argv_len, cli_pc, exit_status, printed>>
fitVars == <<fit_in, text, font_size, fit_pc, c_font, measured, draw_log, chosen, runs>>
markVars == <<data_dict, mark_pc, marks, mark_font>>
xlVars == <<sheet, xl_pc, temp_dir, xl_data, pdf_files, output_file, xl_err, xl_log>>
vars == <<csvVars, guiVars, cliVars, fitVars, markVars, xlVars>>

\* what the actions of one part leave alone
nonCsv == <<guiVars, fitVars, markVars, xlVars>>
nonGui == <<csvVars, cliVars, fitVars, markVars, xlVars>>
nonFit == <<csvVars, cliVars, guiVars, markVars, xlVars>>
nonMark == <<csvVars, cliVars, guiVars, fitVars, xlVars>>
nonXl == <<csvVars, cliVars, guiVars, fitVars, markVars>>

\* None where a text is expected
NoneText == <<PyNone>>

\* no field is being drawn
FitIdle ==
    /\ fit_in = [kind |-> "none", value |-> <<>>, box_width |-> 0, padding |-> 0, base_font_size |-> 0]
    /\ text = <<>>
    /\ font_size = 0
    /\ fit_pc = "idle"
    /\ c_font = 0
    /\ measured = <<>>
    /\ draw_log = <<>>
    /\ chosen = <<>>
    /\ runs = 0

\* Converter.__init__: self.temp_dir = None
NoTempDir == [path |-> PyNone, exists |-> FALSE, files |-> <<>>, rmtree |-> "not called"]

\* convert_excel_to_pdf is not running
XlIdle ==
    /\ sheet = [headers |-> <<>>, rows |-> <<>>]
    /\ xl_pc = "idle"
    /\ temp_dir = NoTempDir
    /\ xl_data = <<>>
    /\ pdf_files = <<>>
    /\ output_file = [written |-> FALSE, pages |-> <<>>]
    /\ xl_err = NoError
    /\ xl_log = <<>>

\* no check mark is being drawn
MarkIdle ==
    /\ data_dict = [sex |-> <<>>, applicant_sex |-> <<>>, discount |-> <<>>,
                    family_member |-> <<>>]
    /\ mark_pc = "idle"
    /\ marks = <<>>
    /\ mark_font = 0

DataLines == SeqsUpTo(CellValues, MaxFields)

Files ==
    { [exists |-> FALSE, decodable |-> TRUE, lines |-> <<>>],
      [exists |-> TRUE, decodable |-> FALSE, lines |-> <<>>],
      [exists |-> TRUE, decodable |-> TRUE, lines |-> <<>>] }
    \cup
    { [exists |-> TRUE, decodable |-> TRUE, lines |-> <<h>> \o rows] :
        h \in Headers, rows \in SeqsUpTo(DataLines, MaxRows) }

NoCanvas == [created |-> FALSE, code |-> <<>>, pages |-> <<>>]
NoFile == [written |-> FALSE, pages |-> <<>>]

\* main.py as the source leaves it before the module is loaded
GuiCreated ==
    /\ gui_pc = "load"
    /\ convert_csv_to_pdf = PyNone
    /\ selected_file_path = ""
    /\ save_file_path = ""
    /\ convert_button = "disabled"
    /\ status = [text |-> <<"Ready - Please select a CSV enrollment file to begin">>, color |-> "#00ff00"]
    /\ debug_mode = FALSE
    /\ dialog = "none"
    /\ conversions = <<>>
    /\ last = [op |-> "none", answer |-> ""]

CsvInit ==
    /\ file \in Files
    /\ pc = "start"
    /\ data_list = <<>>
    /\ i = 0
    /\ canvas = NoCanvas
    /\ out = NoFile
    /\ calls = <<>>
    /\ err = NoError

\* the desktop shell is not started
GuiIdle ==
    /\ env = [as_module |-> FALSE, reportlab |-> TRUE]
    /\ GuiCreated

\* csv_converter.py is not run from the command line
CliIdle ==
    /\ argv_len = 0
    /\ cli_pc = "idle"
    /\ exit_status = -1
    /\ printed = <<>>

\* the lengths of sys.argv: the script name and zero to three arguments
ArgvLens == {1, 2, 3, 4}

\* the command line run of csv_converter.py: python csv_converter.py <args>
Init ==
    /\ CsvInit
    /\ argv_len \in ArgvLens
    /\ argv_len # 3 => file = [exists |-> FALSE, decodable |-> TRUE, lines |-> <<>>]
    /\ cli_pc = "entry"
    /\ exit_status = -1
    /\ printed = <<>>
    /\ GuiIdle
    /\ FitIdle
    /\ MarkIdle
    /\ XlIdle

\* main() without sys.exit(1) in its handler
ExitStatusFor_AlwaysZero(raised) == 0

\* the exit status main() ends with: sys.exit(1) in the handler, else the
\* interpreter ends normally
ExitStatusFor(raised) == IF raised THEN 1 ELSE 0

\* main(), up to the call of convert: the argument count check
main_args ==
    /\ cli_pc = "entry"
    /\ IF argv_len # 3
       THEN /\ printed' = printed \o << <<"Usage: python csv_converter.py <input_csv_path> <output_pdf_path>">>,
                                        <<"Example: python csv_converter.py enrollments.csv output.pdf">> >>
            /\ exit_status' = 1
            /\ cli_pc' = "exited"
       ELSE /\ cli_pc' = "convert"
            /\ UNCHANGED <<printed, exit_status>>
    /\ UNCHANGED argv_len
    /\ UNCHANGED <<csvVars, nonCsv>>

\* main(), after convert: the handler prints the error and exits with 1
main_exit ==
    /\ cli_pc = "convert"
    /\ pc \in {"done", "raised"}
    /\ printed' = IF pc = "raised" THEN Append(printed, <<"Error: ">> \o err.msg) ELSE printed
    /\ exit_status' = ExitStatusFor(pc = "raised")
    /\ cli_pc' = "exited"
    /\ UNCHANGED argv_len
    /\ UNCHANGED <<csvVars, nonCsv>>

\* an entry of calls: the call, the row it is for (0: none) and the
\* exception it ended with ("": it returned)
Call(op, row, exc) == [op |-> op, row |-> row, exc |-> exc]

\* an emptiness test that lets the empty list through
IsEmptyList_Never(d) == FALSE

\* "if not data_list" of convert()
IsEmptyList(d) == d = <<>>

\* a loop left after its first pass
RowsLeft_Never(k, n) == FALSE

\* the for loop of convert() has rows left after row k of n
RowsLeft(k, n) == k < n

\* a page break after every row, the last one included
NotLastRow_Always(k, n) == TRUE

\* "if i < len(data_list) - 1" of convert(), for row k of n counted from 1
NotLastRow(k, n) == k < n

\* enumerate(data_list): the row after row k
NextRow(k) == k + 1

\* a loop body that draws the first record whatever row it is at
DrawnRow_First(k) == 1

\* generate_pdf_from_dict(row, c) in the loop: the record drawn in pass k
DrawnRow(k) == k

\* a handler that swallows the exception and lets the loop go on
ConvertRaises_Continue(e) ==
    /\ pc' = "loop"
    /\ err' = err

\* convert() ends in its handler, which reports e
ConvertRaises(e) ==
    /\ pc' = "raised"
    /\ err' = ConversionProcessError(e)

\* convert(), up to the loop: read the file, refuse an empty list, create the canvas
ConvertRead ==
    /\ cli_pc = "convert"
    /\ pc = "start"
    /\ LET r == read_csv_to_dicts_with_validation(file)
       IN  IF ~r.ok
           THEN /\ ConvertRaises(r.err)
                /\ calls' = Append(calls, Call("read", 0, r.err.kind))
                /\ UNCHANGED <<data_list, i, canvas>>
           ELSE IF IsEmptyList(r.data)
           THEN /\ ConvertRaises([kind |-> "Exception", msg |-> <<"CSV file contains no data rows">>])
                /\ calls' = Append(calls, Call("read", 0, ""))
                /\ data_list' = r.data
                /\ UNCHANGED <<i, canvas>>
           ELSE /\ data_list' = r.data
                /\ canvas' = [created |-> TRUE, code |-> <<>>, pages |-> <<>>]
                /\ calls' = calls \o << Call("read", 0, ""), Call("Canvas", 0, "") >>
                /\ i' = 1
                /\ pc' = IF RowsLeft(0, Len(r.data)) THEN "loop" ELSE "save"
                /\ UNCHANGED err
    /\ UNCHANGED <<file, out>>
    /\ UNCHANGED <<cliVars, nonCsv>>

\* canvas.showPage(): the current page is finished and a new one begun
showPage(c) == [c EXCEPT !.pages = Append(c.pages, c.code), !.code = <<>>]

\* one pass of the loop of convert(): generate_pdf_from_dict(row, c), then
\* showPage unless this was the last row
ConvertRow_i(fails, cause) ==
    /\ pc = "loop"
    /\ IF fails
       THEN \* generate_pdf_from_dict ends in its handler
            /\ ConvertRaises(PageError([kind |-> cause, msg |-> <<cause>>]))
            /\ calls' = Append(calls, Call("generate_pdf_from_dict", DrawnRow(i), cause))
            /\ canvas' = [canvas EXCEPT !.code = Append(@, [row |-> DrawnRow(i), whole |-> FALSE])]
            /\ UNCHANGED i
       ELSE LET drawn == [canvas EXCEPT !.code = Append(@, [row |-> DrawnRow(i), whole |-> TRUE])]
                gen == Call("generate_pdf_from_dict", DrawnRow(i), "")
            IN  /\ IF NotLastRow(i, Len(data_list))
                   THEN /\ canvas' = showPage(drawn)
                        /\ calls' = calls \o <<gen, Call("showPage", i, "")>>
                   ELSE /\ canvas' = drawn
                        /\ calls' = Append(calls, gen)
                /\ pc' = IF RowsLeft(i, Len(data_list)) THEN "loop" ELSE "save"
                /\ i' = NextRow(i)
                /\ UNCHANGED err
    /\ UNCHANGED <<file, data_list, out>>
    /\ UNCHANGED <<cliVars, nonCsv>>

\* c.save(): a page with drawings on it is finished first, then the document
\* is written to pdf_path
save(c) == IF c.code # <<>> THEN showPage(c) ELSE c

ConvertSave(fails) ==
    /\ pc = "save"
    /\ IF fails
       THEN /\ ConvertRaises([kind |-> "IOError", msg |-> <<"cannot write ", PdfPath>>])
            /\ calls' = Append(calls, Call("save", 0, "IOError"))
            /\ UNCHANGED <<canvas, out>>
       ELSE /\ canvas' = save(canvas)
            /\ out' = [written |-> TRUE, pages |-> save(canvas).pages]
            /\ calls' = Append(calls, Call("save", 0, ""))
            /\ pc' = "done"
            /\ UNCHANGED err
    /\ printed' = IF fails THEN printed ELSE Append(printed, <<"Successfully converted rows from ", CsvPath, " to ", PdfPath>>)
    /\ UNCHANGED <<file, data_list, i>>
    /\ UNCHANGED <<argv_len, cli_pc, exit_status, nonCsv>>

\* ----------------------------------------------------------- desktop shell
InputPaths == {"a.csv", "b.csv"}
SavePaths == {"a.pdf", "b.pdf"}

\* the names csv_converter.py defines at module level
csv_converter_names ==
    { "key_mapping", "read_csv_to_dicts", "generate_pdf_from_dict", "convert",
      "read_csv_to_dicts_with_validation", "main" }

\* "from <module> import <name>": TRUE when it binds the name, FALSE when it
\* raises ImportError (no parent package for the relative form, reportlab or
\* the module not found, or the module does not define the name)
ImportBinds(found, name) ==
    /\ found
    /\ env.reportlab
    /\ name \in csv_converter_names

\* the try/except ImportError cascade at the top of main.py
ImportedConverter ==
    IF ImportBinds(env.as_module, "convert_csv_to_pdf") THEN "function"
    ELSE IF ImportBinds(~env.as_module, "convert_csv_to_pdf") THEN "function"
    ELSE PyNone

\* the shell alone: the module main.py is about to be loaded
GuiInit ==
    /\ env \in [as_module : BOOLEAN, reportlab : BOOLEAN]
    /\ GuiCreated
    /\ file = [exists |-> FALSE, decodable |-> TRUE, lines |-> <<>>]
    /\ pc = "idle"
    /\ data_list = <<>>
    /\ i = 0
    /\ canvas = NoCanvas
    /\ out = NoFile
    /\ calls = <<>>
    /\ err = NoError
    /\ CliIdle
    /\ FitIdle
    /\ MarkIdle
    /\ XlIdle

\* module load, FriesenEnrollmentConverterApp.__init__ and run()
GuiLoad ==
    /\ gui_pc = "load"
    /\ convert_csv_to_pdf' = ImportedConverter
    /\ gui_pc' = "mainloop"
    /\ UNCHANGED <<env, selected_file_path, save_file_path, convert_button, status,
                   debug_mode, dialog, conversions, last>>
    /\ UNCHANGED nonGui

\* the user ticks or unticks the Debug checkbox
ToggleDebug ==
    /\ gui_pc = "mainloop"
    /\ debug_mode' = ~debug_mode
    /\ UNCHANGED <<env, gui_pc, convert_csv_to_pdf, selected_file_path, save_file_path,
                   convert_button, status, dialog, conversions, last>>
    /\ UNCHANGED nonGui

\* a test that takes a cancelled dialog for an answer
Chosen_Always(filename) == TRUE

\* "if filename:": the dialog was answered with a path
Chosen(filename) == filename # ""

\* a handler that leaves the button disabled
ButtonAfterSelect_Disabled == "disabled"

\* self.convert_button.configure(state="normal")
ButtonAfterSelect == "normal"

\* open_file_dialog: filename is the answer of the open dialog, "" when cancelled
open_file_dialog(filename) ==
    /\ gui_pc = "mainloop"
    /\ last' = [op |-> "open_file_dialog", answer |-> filename]
    /\ dialog' = "none"
    /\ IF Chosen(filename)
       THEN /\ selected_file_path' = filename
            /\ convert_button' = ButtonAfterSelect
            /\ status' = [text |-> <<"CSV file selected: ", filename, " - Ready to convert!">>,
                          color |-> "#00ff00"]
       ELSE UNCHANGED <<selected_file_path, convert_button, status>>
    /\ UNCHANGED <<env, gui_pc, convert_csv_to_pdf, save_file_path, debug_mode, conversions>>
    /\ UNCHANGED nonGui

\* convert_file, the command of the Convert button (a disabled button runs no
\* command): filename is the answer of the save dialog, "" when cancelled;
\* raises tells whether the conversion call ends with an exception
convert_file(filename, raises) ==
    /\ gui_pc = "mainloop"
    /\ convert_button = "normal"
    /\ last' = [op |-> "convert_file", answer |-> filename]
    /\ IF selected_file_path = ""
       THEN /\ status' = [text |-> <<"Please select a CSV file first!">>, color |-> "#ff0000"]
            /\ dialog' = "none"
            /\ UNCHANGED <<save_file_path, conversions>>
       ELSE IF ~Chosen(filename)
       THEN /\ status' = [text |-> <<"Conversion cancelled by user">>, color |-> "#ffaa00"]
            /\ dialog' = "none"
            /\ UNCHANGED <<save_file_path, conversions>>
       ELSE IF convert_csv_to_pdf = PyNone
       THEN /\ status' = [text |-> <<"Conversion dependencies not installed. Please install required packages.">>,
                          color |-> "#ff0000"]
            /\ dialog' = "Missing Dependencies"
            /\ UNCHANGED <<save_file_path, conversions>>
       ELSE /\ conversions' = Append(conversions,
                                     [csv |-> selected_file_path, pdf |-> filename, debug |-> debug_mode])
            /\ IF raises
               THEN /\ status' = [text |-> <<"Conversion error: ">>, color |-> "#ff0000"]
                    /\ dialog' = "Conversion Error"
                    /\ UNCHANGED save_file_path
               ELSE /\ save_file_path' = filename
                    /\ status' = [text |-> <<"CSV successfully converted to PDF: ", filename>>,
                                  color |-> "#00ff00"]
                    /\ dialog' = "none"
    /\ UNCHANGED <<env, gui_pc, convert_csv_to_pdf, selected_file_path, convert_button, debug_mode>>
    /\ UNCHANGED nonGui

GuiNext ==
    \/ GuiLoad
    \/ ToggleDebug
    \/ \E filename \in InputPaths \cup {""} : open_file_dialog(filename)
    \/ \E filename \in SavePaths \cup {""}, raises \in BOOLEAN : convert_file(filename, raises)

SpecGui == GuiInit /\ [][GuiNext]_vars

\* ------------------------------------------------- text fields of the page
\* convert() is not running
CsvIdle ==
    /\ file = [exists |-> FALSE, decodable |-> TRUE, lines |-> <<>>]
    /\ pc = "idle"
    /\ data_list = <<>>
    /\ i = 0
    /\ canvas = NoCanvas
    /\ out = NoFile
    /\ calls = <<>>
    /\ err = NoError

\* the IBAN of the example, and the same IBAN already written in blocks
SampleIban ==
    << "D","E","8","9","3","7","0","4","0","0","4","4","0","5","3","2","0","1","3","0","0","0" >>
SpacedIban ==
    << "D","E","8","9"," ","3","7","0","4"," ","0","0","4","4"," ","0","5","3","2"," ","0","1","3","0"," ","0","0" >>

\* the values of the field 'iban'
Ibans ==
    { SubSeq(SampleIban, 1, n) : n \in 0..MaxIbanLen }
    \cup { SubSeq(SpacedIban, 1, n) : n \in 0..MaxIbanLen }
    \cup { NoneText }

\* the values of a field that is drawn as it is
PlainTexts == SeqsUpTo({"i", "W"}, MaxTextLen) \cup { NoneText }

\* box widths and paddings (points), start sizes, and the sizes the canvas
\* font can have before the call
BoxWidths == {16, 22, 35}
Paddings == {2, 5}
BaseFontSizes == {6, 7, 12}
CanvasFontSizes == {8, 12}

\* width of a character of Helvetica, in thousandths of the font size
CharWidth(ch) ==
    CASE ch = "i" -> 222
      [] ch \in {" ", ","} -> 278
      [] ch = "W" -> 944
      [] ch \in {"D", "N"} -> 722
      [] ch = "E" -> 667
      [] ch \in {"G", "O"} -> 778
      [] ch \in {"s", "c", "v"} -> 500
      [] ch \in {"l"} -> 222
      [] ch \in {"t", ":", "/"} -> 278
      [] ch = "w" -> 722
      [] ch = "m" -> 833
      [] ch = "r" -> 333
      [] OTHER -> 556

\* c.stringWidth(text, font_name, font_size), in thousandths of a point
RECURSIVE stringWidth(_, _)
stringWidth(t, size) ==
    IF t = <<>> THEN 0 ELSE CharWidth(Head(t)) * size + stringWidth(Tail(t), size)

\* "text_width <= available_width" for available_width = box_width - 2 * padding
Fits(t, size, box_width, padding) ==
    stringWidth(t, size) <= (box_width - 2 * padding) * 1000

\* a truth value that takes None for a text
Truthy_NoneIsText(t) == t # <<>>

\* Python's truth value of a text: None and '' are false
Truthy(t) == t # <<>> /\ t # NoneText

\* iban[i:i+4] for i in range(0, len(iban), 4)
IbanBlocks(iban) ==
    [ k \in 1..((Len(iban) + 3) \div 4) |->
        SubSeq(iban, 4 * (k - 1) + 1, IF 4 * k < Len(iban) THEN 4 * k ELSE Len(iban)) ]

\* ' '.join(blocks)
RECURSIVE JoinSpace(_)
JoinSpace(blocks) ==
    IF blocks = <<>> THEN <<>>
    ELSE IF Len(blocks) = 1 THEN blocks[1]
    ELSE blocks[1] \o <<" ">> \o JoinSpace(Tail(blocks))

\* a formatting that also puts a space after the last block
FormatIban_TrailingSpace(iban) == JoinSpace(IbanBlocks(iban)) \o <<" ">>

\* formatted_iban
FormatIban(iban) == JoinSpace(IbanBlocks(iban))

\* the values of a last name or a first name of the record
NameParts == { <<>>, NoneText, <<"W">>, <<"i">> }

\* str(v) as an f-string inserts it: None is written "None"
PyStr(v) == IF v = NoneText THEN << "N","o","n","e" >> ELSE v

\* name_text = f"{last_name}, {first_name}" if last_name and first_name
\*             else f"{last_name}{first_name}"
name_text(last_name, first_name) ==
    IF Truthy(last_name) /\ Truthy(first_name)
    THEN PyStr(last_name) \o << ",", " " >> \o PyStr(first_name)
    ELSE PyStr(last_name) \o PyStr(first_name)

\* a floor test that lets the loop run once more at the floor
AboveFloor_Inclusive(size) == size >= 6

\* "while font_size > 6"
AboveFloor(size) == size > 6

\* a loop that shrinks by two
Shrink_ByTwo(size) == size - 2

\* "font_size -= 1"
Shrink(size) == size - 1

\* one field is about to be drawn
FitInit ==
    /\ \E kind \in {"plain", "iban", "name"}, bw \in BoxWidths, pad \in Paddings,
          base \in BaseFontSizes :
          \E v \in CASE kind = "iban" -> Ibans
                     [] kind = "name" -> NameParts \X NameParts
                     [] OTHER -> PlainTexts :
              fit_in = [kind |-> kind, value |-> v, box_width |-> bw, padding |-> pad,
                        base_font_size |-> base]
    /\ text = <<>>
    /\ font_size = 0
    /\ fit_pc = "field"
    /\ c_font \in CanvasFontSizes
    /\ measured = <<>>
    /\ draw_log = <<>>
    /\ chosen = <<>>
    /\ runs = 0
    /\ CsvIdle
    /\ CliIdle
    /\ GuiIdle
    /\ MarkIdle
    /\ XlIdle

\* the field is handed to draw_text_in_box (an IBAN only if it is not empty,
\* and formatted; a name put together from last and first name; for a name
\* fit_in.value is the pair of the two); it returns at once for an empty text, else
\* it starts with font_size = base_font_size
draw_field ==
    /\ fit_pc = "field"
    /\ runs' = runs + 1
    /\ measured' = <<>>
    /\ IF fit_in.kind = "iban" /\ ~Truthy(fit_in.value)
       THEN /\ fit_pc' = "returned"
            /\ UNCHANGED <<text, font_size>>
       ELSE LET t == CASE fit_in.kind = "iban" -> FormatIban(fit_in.value)
                        [] fit_in.kind = "name" -> name_text(fit_in.value[1], fit_in.value[2])
                        [] OTHER -> fit_in.value
            IN  /\ text' = t
                /\ IF ~Truthy(t)
                   THEN /\ fit_pc' = "returned"
                        /\ UNCHANGED font_size
                   ELSE /\ font_size' = fit_in.base_font_size
                        /\ fit_pc' = "loop"
    /\ UNCHANGED <<fit_in, c_font, draw_log, chosen>>
    /\ UNCHANGED nonFit

\* one test of the while condition and, if it holds, one pass of the loop
fit_loop ==
    /\ fit_pc = "loop"
    /\ IF AboveFloor(font_size)
       THEN /\ c_font' = font_size
            /\ measured' = Append(measured, font_size)
            /\ IF Fits(text, font_size, fit_in.box_width, fit_in.padding)
               THEN /\ fit_pc' = "draw"
                    /\ UNCHANGED font_size
               ELSE /\ font_size' = Shrink(font_size)
                    /\ UNCHANGED fit_pc
       ELSE /\ fit_pc' = "draw"
            /\ UNCHANGED <<c_font, measured, font_size>>
    /\ UNCHANGED <<fit_in, text, draw_log, chosen, runs>>
    /\ UNCHANGED nonFit

\* c.drawString(x + padding, y, text): drawn at the font the canvas has
fit_draw ==
    /\ fit_pc = "draw"
    /\ draw_log' = Append(draw_log, [text |-> text, size |-> c_font, font_size |-> font_size,
                               dx |-> fit_in.padding])
    /\ chosen' = Append(chosen, font_size)
    /\ fit_pc' = "returned"
    /\ UNCHANGED <<fit_in, text, font_size, c_font, measured, runs>>
    /\ UNCHANGED nonFit

\* the same field is drawn once more
fit_again ==
    /\ fit_pc = "returned"
    /\ runs < MaxRuns
    /\ fit_pc' = "field"
    /\ UNCHANGED <<fit_in, text, font_size, c_font, measured, draw_log, chosen, runs>>
    /\ UNCHANGED nonFit

FitNext ==
    \/ draw_field
    \/ fit_loop
    \/ fit_draw
    \/ fit_again

SpecFit == FitInit /\ [][FitNext]_vars

\* a call of draw_text_in_box that has started runs on
SpecFitFair == SpecFit /\ WF_vars(fit_loop) /\ WF_vars(fit_draw)

\* ------------------------------------------------- check marks of the page
\* the three tokens of the gender lines and the token of the discount line
Weiblich == << "w","e","i","b","l","i","c","h" >>
Maennlich == << "m","ä","n","n","l","i","c","h" >>
Divers == << "d","i","v","e","r","s" >>
Ja == << "j","a" >>

\* "Geschlecht: O weiblich / O männlich / O divers"
GenderTemplate ==
    << "G","e","s","c","h","l","e","c","h","t",":"," ","O"," " >> \o Weiblich
    \o << " ","/"," ","O"," " >> \o Maennlich \o << " ","/"," ","O"," " >> \o Divers

\* the beginning of right_text_line1, "O ermäßigtes Mitglied, ..."
DiscountLine == << "O"," ","e","r","m","ä","ß","i","g","t","e","s" >>

\* the letters of the tokens in upper and in lower case
CasePairs ==
    { <<"W","w">>, <<"E","e">>, <<"I","i">>, <<"B","b">>, <<"L","l">>, <<"C","c">>,
      <<"H","h">>, <<"M","m">>, <<"Ä","ä">>, <<"N","n">>, <<"D","d">>, <<"V","v">>,
      <<"R","r">>, <<"S","s">>, <<"J","j">>, <<"A","a">> }

UpperChar(ch) ==
    IF \E p \in CasePairs : p[2] = ch THEN (CHOOSE p \in CasePairs : p[2] = ch)[1] ELSE ch

LowerChar(ch) ==
    IF \E p \in CasePairs : p[1] = ch THEN (CHOOSE p \in CasePairs : p[1] = ch)[2] ELSE ch

\* str.lower()
Lower(t) == [ j \in 1..Len(t) |-> LowerChar(t[j]) ]

\* a token as it can be written in a CSV cell
AllCases(t) == { t, <<UpperChar(t[1])>> \o Tail(t), [ j \in 1..Len(t) |-> UpperChar(t[j]) ] }

\* the values of 'sex' and 'applicant_sex', and those of 'discount'
SexValues ==
    AllCases(Weiblich) \cup AllCases(Maennlich) \cup AllCases(Divers)
    \cup { <<>>, NoneText, <<"x">>, Weiblich \o <<" ">> }
DiscountValues ==
    AllCases(Ja) \cup { <<>>, NoneText, <<"j">>, <<"n","e","i","n">> }

\* "if v is not None: v = v.lower() else: v = ''": lower() is never called
\* on None, so no AttributeError is raised here
Normalized(v) == IF v # NoneText THEN Lower(v) ELSE <<>>

\* the loop over the template: the x of every "O", from the x of the text
RECURSIVE o_positions(_, _)
o_positions(t, current_x) ==
    IF t = <<>> THEN <<>>
    ELSE (IF Head(t) = "O" THEN <<current_x>> ELSE <<>>)
         \o o_positions(Tail(t), current_x + stringWidth(<<Head(t)>>, 10))

\* a choice that marks the first "O" for every token
MarkIndex_AlwaysFirst(sex, n, need3) ==
    IF sex \in {Weiblich, Maennlich, Divers} /\ n >= 1 THEN 1 ELSE 0

\* the if/elif chain: the "O" that is overprinted, 0 for none; need3 is the
\* length the chain asks of o_positions before it reads o_positions[2]
MarkIndex(sex, n, need3) ==
    IF sex \notin {Weiblich, Maennlich, Divers} THEN 0
    ELSE IF sex = Weiblich /\ n >= 1 THEN 1
    ELSE IF sex = Maennlich /\ n >= 2 THEN 2
    ELSE IF sex = Divers /\ n >= need3 THEN 3
    ELSE 0

\* a test that takes every non-empty discount for 'ja'
IsJa_AnyValue(discount) == discount # <<>>

\* "if discount == 'ja'"
IsJa(discount) == discount = Ja

\* the x of the three "O" of the template, from the x of its left end
TemplateOPositions == o_positions(GenderTemplate, 0)

\* the texts drawn on one gender line, at 10pt; dx is the distance from the
\* left end of the template, in thousandths of a point
GenderLine(line, op, value, need3) ==
    LET pos == TemplateOPositions
        k == MarkIndex(value, Len(pos), need3)
    IN  <<[line |-> line, op |-> op, text |-> GenderTemplate, dx |-> 0, size |-> 10]>>
        \o (IF k = 0 THEN <<>>
            ELSE <<[line |-> line, op |-> "drawString", text |-> <<"X">>, dx |-> pos[k],
                    size |-> 10]>>)

\* the width of the family member box in points (the model's texts are short,
\* and so is its box)
FamilyBoxWidth == 22

\* the values of 'family_member'
FamilyValues == { <<>>, NoneText, <<"W">>, <<"W", "W">> }

\* the font size the canvas has after draw_text_in_box(t, ..., bw, padding=pad)
\* on a non-empty text, cf being the size it had before
RECURSIVE FontAfterLoop(_, _, _, _, _)
FontAfterLoop(t, size, bw, pad, cf) ==
    IF AboveFloor(size)
    THEN IF Fits(t, size, bw, pad) THEN size
         ELSE FontAfterLoop(t, Shrink(size), bw, pad, size)
    ELSE cf

\* a discount value that is taken for 'ja' as soon as there is a family member
DiscountOf_OrFamily(r) ==
    IF Truthy(r.family_member) THEN Ja ELSE Normalized(r.discount)

\* discount = data_dict.get('discount', ''), lower-cased
DiscountOf(r) == Normalized(r.discount)

\* lines 282-316: what the member gender section draws for the record r
member_gender_marks(r) ==
    GenderLine("member_gender", "drawRightString", Normalized(r.sex), 2)

\* lines 385-399: the box and the text of the family member, if there is one
family_member_marks(r) ==
    IF Truthy(r.family_member)
    THEN << [line |-> "family_member", op |-> "rect", text |-> <<>>, dx |-> 0, size |-> 10],
            [line |-> "family_member", op |-> "drawString", text |-> r.family_member, dx |-> 2000,
             size |-> FontAfterLoop(r.family_member, 12, FamilyBoxWidth, 2, 10)] >>
    ELSE <<>>

\* the font size of the canvas after lines 365-399
family_member_font(r) ==
    IF Truthy(r.family_member)
    THEN FontAfterLoop(r.family_member, 12, FamilyBoxWidth, 2, 10)
    ELSE 10

\* lines 381 and 401-410: the first line of the discount box and its mark,
\* drawn at the font size the canvas has by then
discount_marks(r, font) ==
    <<[line |-> "discount", op |-> "drawString", text |-> DiscountLine, dx |-> 0, size |-> 10]>>
    \o (IF IsJa(DiscountOf(r))
        THEN <<[line |-> "discount", op |-> "drawString", text |-> <<"X">>, dx |-> 0,
                size |-> font]>>
        ELSE <<>>)

\* lines 511-541: what the guardian gender section draws for the record r
guardian_gender_marks(r) ==
    GenderLine("guardian_gender", "drawString", Normalized(r.applicant_sex), 3)

\* a record reaches the drawing of its page
MarkInit ==
    /\ data_dict \in [sex : SexValues, applicant_sex : SexValues, discount : DiscountValues,
                      family_member : FamilyValues]
    /\ mark_pc = "member_gender"
    /\ marks = <<>>
    /\ mark_font = 12
    /\ CsvIdle
    /\ CliIdle
    /\ GuiIdle
    /\ FitIdle
    /\ XlIdle

\* the gender line of the member box
member_gender ==
    /\ mark_pc = "member_gender"
    /\ marks' = marks \o member_gender_marks(data_dict)
    /\ mark_font' = 10
    /\ mark_pc' = "family_member"
    /\ UNCHANGED data_dict
    /\ UNCHANGED nonMark

\* the family member box
family_member ==
    /\ mark_pc = "family_member"
    /\ marks' = marks \o family_member_marks(data_dict)
    /\ mark_font' = family_member_font(data_dict)
    /\ mark_pc' = "discount"
    /\ UNCHANGED data_dict
    /\ UNCHANGED nonMark

\* the first line of the discount box and its mark
discount_mark ==
    /\ mark_pc = "discount"
    /\ marks' = marks \o discount_marks(data_dict, mark_font)
    /\ mark_pc' = "guardian_gender"
    /\ UNCHANGED <<data_dict, mark_font>>
    /\ UNCHANGED nonMark

\* the gender line of the legal guardian
guardian_gender ==
    /\ mark_pc = "guardian_gender"
    /\ marks' = marks \o guardian_gender_marks(data_dict)
    /\ mark_font' = 10
    /\ mark_pc' = "done"
    /\ UNCHANGED data_dict
    /\ UNCHANGED nonMark

MarkNext ==
    \/ member_gender
    \/ family_member
    \/ discount_mark
    \/ guardian_gender

SpecMarks == MarkInit /\ [][MarkNext]_vars

\* ------------------------------------------------------------ Excel flow
\* the values of a cell: empty, blanks only, a text
SheetCells == { PyNone, " ", "x" }

\* the header rows: two names, one name twice, no names, a name and none
SheetHeaders == { <<"A", "B">>, <<"A", "A">>, <<PyNone, PyNone>>, <<"A", PyNone>> }

\* the data rows under a header row of two columns
SheetRows == { <<a, b>> : a \in SheetCells, b \in SheetCells }

\* the active worksheets
Sheets == { [headers |-> h, rows |-> rs] : h \in SheetHeaders, rs \in SeqsUpTo(SheetRows, MaxRows) }

\* headers.append(cell.value if cell.value is not None else "")
HeaderKey(v) == IF v # PyNone THEN v ELSE ""

\* "" if cell_value is None else str(cell_value)
CellText(v) == IF v = PyNone THEN "" ELSE v

\* value.strip()
Strip(v) == IF v = " " THEN "" ELSE v

\* row_data after the loop over enumerate(headers, 1): a later column with
\* the same header overwrites the earlier one
row_data(headers, row) ==
    LET keys == { HeaderKey(headers[k]) : k \in 1..Len(headers) }
        LastCol(h) == Max({ k \in 1..Len(headers) : HeaderKey(headers[k]) = h })
    IN  [ h \in keys |-> CellText(row[LastCol(h)]) ]

\* any(value.strip() for value in row_data.values() if isinstance(value, str))
HasData(rd) == \E h \in DOMAIN rd : Strip(rd[h]) # ""

\* the loop over the data rows of _read_excel_data
RECURSIVE ReadRows(_, _)
ReadRows(headers, rows) ==
    IF rows = <<>> THEN <<>>
    ELSE LET rd == row_data(headers, Head(rows))
         IN  (IF HasData(rd) THEN <<rd>> ELSE <<>>) \o ReadRows(headers, Tail(rows))

\* _read_excel_data's handler: raise ConversionError(f"Error reading Excel file: {e}")
ExcelReadError(e) == Reraise("ConversionError", <<"Error reading Excel file: ">>, e)

\* raise ConversionError("Excel file is empty")
ExcelEmptyError == [kind |-> "ConversionError", msg |-> <<"Excel file is empty">>]

\* _combine_pdfs's handler: raise ConversionError(f"Error combining PDFs: {e}")
CombineError(e) == Reraise("ConversionError", <<"Error combining PDFs: ">>, e)

\* convert_excel_to_pdf's handler: a ConversionError is raised again as it
\* is, anything else is wrapped
HandlerRaises(e) ==
    IF e.kind = "ConversionError" THEN e
    ELSE Reraise("ConversionError", <<"Unexpected error during conversion: ">>, e)

\* what the operating system or a library can raise
OsError == [kind |-> "OSError", msg |-> <<"No space left on device">>]

\* a clean-up that leaves the directory alone
cleanup_temp_files_Skip(td, rm_fails) == td

\* _cleanup_temp_files: shutil.rmtree(self.temp_dir) if it is set and exists;
\* a failing rmtree is only reported
cleanup_temp_files(td, rm_fails) ==
    IF td.path # PyNone /\ td.exists
    THEN IF rm_fails
         THEN [td EXCEPT !.rmtree = "failed"]
         ELSE [td EXCEPT !.exists = FALSE, !.files = <<>>, !.rmtree = "removed"]
    ELSE td

\* a combination that takes the pages in reverse
CombinedPages_Reversed(files) == [ k \in 1..Len(files) |-> files[Len(files) + 1 - k].page ]

\* _combine_pdfs: the pages of the files in the order of pdf_files
CombinedPages(files) == [ k \in 1..Len(files) |-> files[k].page ]

\* an entry of xl_log
XlEvent(ev, n) == [ev |-> ev, n |-> n]

\* convert_excel_to_pdf(excel_file, output_file) is called
XlInit ==
    /\ sheet \in Sheets
    /\ xl_pc = "start"
    /\ temp_dir = NoTempDir
    /\ xl_data = <<>>
    /\ pdf_files = <<>>
    /\ output_file = [written |-> FALSE, pages |-> <<>>]
    /\ xl_err = NoError
    /\ xl_log = <<>>
    /\ CsvIdle
    /\ CliIdle
    /\ GuiIdle
    /\ FitIdle
    /\ MarkIdle

\* self.temp_dir = tempfile.mkdtemp(), before the try block
xl_mkdtemp(fails) ==
    /\ xl_pc = "start"
    /\ IF fails
       THEN /\ xl_err' = OsError
            /\ xl_pc' = "raised"
            /\ UNCHANGED <<temp_dir, xl_log>>
       ELSE /\ temp_dir' = [path |-> "tmp", exists |-> TRUE, files |-> <<>>,
                            rmtree |-> "not called"]
            /\ xl_log' = Append(xl_log, XlEvent("mkdtemp", 0))
            /\ xl_pc' = "read"
            /\ UNCHANGED xl_err
    /\ UNCHANGED <<sheet, xl_data, pdf_files, output_file>>
    /\ UNCHANGED nonXl

\* the exception e is caught by the handler of convert_excel_to_pdf
XlFail(e, rm_fails) ==
    /\ temp_dir' = cleanup_temp_files(temp_dir, rm_fails)
    /\ xl_log' = Append(xl_log, XlEvent("cleanup", 0))
    /\ xl_err' = HandlerRaises(e)
    /\ xl_pc' = "raised"

\* data = self._read_excel_data(excel_file) and the test "if not data"
xl_read(fails, rm_fails) ==
    /\ xl_pc = "read"
    /\ IF fails
       THEN /\ XlFail(ExcelReadError(OsError), rm_fails)
            /\ UNCHANGED xl_data
       ELSE LET data == ReadRows(sheet.headers, sheet.rows)
            IN  /\ xl_data' = data
                /\ IF data = <<>>
                   THEN XlFail(ExcelEmptyError, rm_fails)
                   ELSE /\ xl_pc' = "pages"
                        /\ UNCHANGED <<temp_dir, xl_log, xl_err>>
    /\ UNCHANGED <<sheet, pdf_files, output_file>>
    /\ UNCHANGED nonXl

\* one pass of the loop over enumerate(data, start=1): the page of the next
\* record is written to its own file by c.save() in _create_basic_form_page
xl_page(fails, rm_fails) ==
    /\ xl_pc = "pages"
    /\ LET counter == Len(pdf_files) + 1
       IN  IF fails
           THEN /\ XlFail(OsError, rm_fails)
                /\ UNCHANGED pdf_files
           ELSE /\ temp_dir' = [temp_dir EXCEPT
                                  !.files = Append(@, [name |-> counter, page |-> xl_data[counter]])]
                /\ pdf_files' = Append(pdf_files, counter)
                /\ xl_log' = Append(xl_log, XlEvent("page", counter))
                /\ xl_pc' = IF counter < Len(xl_data) THEN "pages" ELSE "combine"
                /\ UNCHANGED xl_err
    /\ UNCHANGED <<sheet, xl_data, output_file>>
    /\ UNCHANGED nonXl

\* the page file with the given name
PageFile(name) == temp_dir.files[CHOOSE k \in 1..Len(temp_dir.files) : temp_dir.files[k].name = name]

\* _combine_pdfs(pdf_files, output_file), the clean-up and the return
xl_combine(fails, rm_fails) ==
    /\ xl_pc = "combine"
    /\ IF fails
       THEN /\ XlFail(CombineError(OsError), rm_fails)
            /\ UNCHANGED output_file
       ELSE /\ output_file' = [written |-> TRUE,
                               pages |-> CombinedPages([ k \in 1..Len(pdf_files) |-> PageFile(pdf_files[k]) ])]
            /\ temp_dir' = cleanup_temp_files(temp_dir, rm_fails)
            /\ xl_log' = xl_log \o << XlEvent("combine", 0), XlEvent("cleanup", 0) >>
            /\ xl_pc' = "returned"
            /\ UNCHANGED xl_err
    /\ UNCHANGED <<sheet, xl_data, pdf_files>>
    /\ UNCHANGED nonXl

XlNext ==
    \/ \E fails \in BOOLEAN : xl_mkdtemp(fails)
    \/ \E fails \in BOOLEAN, rm_fails \in BOOLEAN : xl_read(fails, rm_fails)
    \/ \E fails \in BOOLEAN, rm_fails \in BOOLEAN : xl_page(fails, rm_fails)
    \/ \E fails \in BOOLEAN, rm_fails \in BOOLEAN : xl_combine(fails, rm_fails)

SpecExcel == XlInit /\ [][XlNext]_vars

Next ==
    \/ main_args
    \/ main_exit
    \/ ConvertRead
    \/ \E fails \in BOOLEAN, cause \in Causes : ConvertRow_i(fails, cause)
    \/ \E fails \in BOOLEAN : ConvertSave(fails)

Spec == Init /\ [][Next]_vars

\* ------------------------------------------------------------ the input, read off the file
\* the positions in file.lines of the data lines that have at least one field
DataLineIdx == { k \in 2..Len(file.lines) : file.lines[k] # <<>> }

\* a file convert() reads without an error of the reader
ReadableFile ==
    /\ file.exists
    /\ file.decodable
    /\ file.lines # <<>>
    /\ ~StripsToEmpty(file.lines[1])

\* the positions in calls of the calls of op
CallsOf(op) == { k \in 1..Len(calls) : calls[k].op = op }

\* the page that holds the complete drawing of row k and nothing else
PageOf(k) == << [row |-> k, whole |-> TRUE] >>

\* ------------------------------------------------------------------ claims

\* C1: when convert() returns for an input with N >= 1 data rows, the
\* document written has exactly N pages, generate_pdf_from_dict was called
\* once per record, showPage exactly N-1 times and never after the last
\* record, and the save closed the last page.
C1_OnePagePerRow ==
    pc = "done" =>
        LET N == Cardinality(DataLineIdx)
        IN  /\ N >= 1
            /\ out.written
            /\ Len(out.pages) = N
            /\ Cardinality(CallsOf("generate_pdf_from_dict")) = N
            /\ \A k \in 1..N : \E c \in CallsOf("generate_pdf_from_dict") : calls[c].row = k
            /\ Cardinality(CallsOf("showPage")) = N - 1
            /\ \A c \in CallsOf("showPage") : calls[c].row < N
            /\ canvas.code = <<>>
            /\ out.pages[N] = PageOf(N)

C1_Witness ==
    /\ pc = "done"
    /\ Cardinality(DataLineIdx) = 2
    /\ Len(out.pages) = 2
    /\ Cardinality(CallsOf("showPage")) = 1

\* C2: pages are appended in input row order: at every moment the pages
\* finished so far are the pages of rows 1, 2, ... in this order, the page
\* being drawn is that of the next row, and the rendering calls made are
\* those of rows 1, 2, ... without a gap or a repetition.
C2_PageOrder ==
    LET gens == CallsOf("generate_pdf_from_dict")
    IN  /\ \A k \in 1..Len(canvas.pages) : canvas.pages[k] = PageOf(k)
        /\ \A k \in 1..Len(out.pages) : out.pages[k] = PageOf(k)
        /\ canvas.code # <<>> =>
              /\ Len(canvas.code) = 1
              /\ canvas.code[1].row = Len(canvas.pages) + 1
        /\ \A c \in gens : calls[c].row = Cardinality({ d \in gens : d <= c })
        /\ \A c \in gens : calls[c].row \in 1..Len(data_list)

C2_Witness ==
    /\ pc = "done"
    /\ Len(out.pages) = 2
    /\ out.pages[1] = PageOf(1)
    /\ out.pages[2] = PageOf(2)

\* C3: for an input with a header row and no data row, convert() raises the
\* error "CSV file contains no data rows"; the canvas for the destination
\* path is never created, save is never called and no output file exists.
C3_EmptyInputRaises ==
    (ReadableFile /\ DataLineIdx = {} /\ pc # "start") =>
        /\ pc = "raised"
        /\ err = [kind |-> "Exception",
                  msg |-> <<"Error in conversion process: ", "CSV file contains no data rows">>]
        /\ ~canvas.created
        /\ CallsOf("Canvas") = {}
        /\ CallsOf("save") = {}
        /\ ~out.written

C3_Witness ==
    /\ ReadableFile
    /\ Len(file.lines) = 1
    /\ pc = "raised"
    /\ ~out.written

\* C4: the document is saved at most once, the save is the last call of the
\* run and comes only after every record has been rendered; a run that
\* returns has saved exactly once, and the output file exists only then.
C4_SaveOnceAtEnd ==
    LET saves == CallsOf("save")
    IN  /\ Cardinality(saves) <= 1
        /\ \A c \in saves :
              /\ c = Len(calls)
              /\ \A k \in 1..Len(data_list) :
                    \E g \in CallsOf("generate_pdf_from_dict") :
                        g < c /\ calls[g].row = k /\ calls[g].exc = ""
        /\ pc = "done" => \E c \in saves : calls[c].exc = ""
        /\ out.written <=> pc = "done"

C4_Witness ==
    /\ pc = "done"
    /\ Len(data_list) = 2
    /\ calls[Len(calls)] = Call("save", 0, "")

\* C5: when rendering a record fails, the failed call is the last call of the
\* run: no later record is rendered, nothing is saved or written to the
\* destination path, and convert() has raised.
C5_AbortOnRenderError ==
    \A c \in CallsOf("generate_pdf_from_dict") :
        calls[c].exc # "" =>
            /\ c = Len(calls)
            /\ pc = "raised"
            /\ err.kind = "Exception"
            /\ CallsOf("save") = {}
            /\ ~out.written

C5_Witness ==
    /\ pc = "raised"
    /\ Len(data_list) = 2
    /\ calls[Len(calls)].op = "generate_pdf_from_dict"
    /\ calls[Len(calls)].row = 1
    /\ calls[Len(calls)].exc # ""

\* the run ended because drawing a page raised
RenderFailed ==
    /\ pc = "raised"
    /\ calls # <<>>
    /\ calls[Len(calls)].op = "generate_pdf_from_dict"
    /\ calls[Len(calls)].exc # ""

\* C6 as stated: the error convert()'s caller receives for a failed page
\* carries the underlying cause and the output path.
C6_ErrorCarriesCauseAndPath ==
    RenderFailed =>
        /\ calls[Len(calls)].exc \in Range(err.msg)
        /\ PdfPath \in Range(err.msg)

\* C6 amended: the error convert()'s caller receives for a failed page is a
\* plain Exception whose message is the two wrapper prefixes followed by the
\* message of the underlying cause; the output path is not part of it.
C6_ErrorCarriesCause ==
    RenderFailed =>
        /\ err.kind = "Exception"
        /\ err.msg = << "Error in conversion process: ", "Error creating PDF page: ",
                        calls[Len(calls)].exc >>
        /\ PdfPath \notin Range(err.msg)

C6_Witness ==
    /\ RenderFailed
    /\ calls[Len(calls)].exc = "KeyError"
    /\ calls[Len(calls)].row = 2

\* C7 as stated: once a CSV file is selected and the save dialog answered
\* with a path, with the dependencies installed, convert_file calls the
\* conversion entry point for these two paths and does not show 'Missing
\* Dependencies'; a call that returns is followed by save_file_path set and
\* the success status.
C7_ConvertInvokesConverter ==
    ( /\ last.op = "convert_file"
      /\ last.answer # ""
      /\ selected_file_path # ""
      /\ env.reportlab ) =>
        /\ dialog # "Missing Dependencies"
        /\ conversions # <<>>
        /\ conversions[Len(conversions)].csv = selected_file_path
        /\ conversions[Len(conversions)].pdf = last.answer
        /\ dialog = "none" =>
              /\ save_file_path = last.answer
              /\ status.text = <<"CSV successfully converted to PDF: ", last.answer>>

\* the canonical keys: the targets of key_mapping other than None
NonNullTargets ==
    { key_mapping[j][2] : j \in { k \in 1..Len(key_mapping) : key_mapping[k][2] # PyNone } }

\* the mapped entries of key_mapping: source column and canonical key
MappedPairs ==
    { key_mapping[j] : j \in { k \in 1..Len(key_mapping) : key_mapping[k][2] # PyNone } }

\* the position in file.lines of the k-th data line that has fields
LineOf(k) ==
    CHOOSE p \in DataLineIdx : Cardinality({ q \in DataLineIdx : q <= p }) = k

\* what the line at position p holds for source column c: "" for a column
\* the header does not name, None for a column the line is too short for,
\* else the field under the last header cell naming c
FieldOf(p, c) ==
    LET header == file.lines[1]
        at == { q \in 1..Len(header) : header[q] = c }
    IN  IF at = {} THEN [absent |-> TRUE, short |-> FALSE, text |-> ""]
        ELSE IF Max(at) > Len(file.lines[p]) THEN [absent |-> FALSE, short |-> TRUE, text |-> ""]
        ELSE [absent |-> FALSE, short |-> FALSE, text |-> file.lines[p][Max(at)]]

\* the header cells that name a mapped source column
MappedHeaderCells ==
    { q \in 1..Len(file.lines[1]) : \E m \in MappedPairs : m[1] = file.lines[1][q] }

\* the field of the line at position p under header cell q, None when the
\* line is too short for it
CellAt(p, q) == IF q <= Len(file.lines[p]) THEN file.lines[p][q] ELSE PyNone

C9_ValuesAreStrings ==
    \A k \in 1..Len(data_list) :
        \A m \in MappedPairs :
            /\ data_list[k][m[2]] # PyNone
            /\ (FieldOf(LineOf(k), m[1]).absent \/ FieldOf(LineOf(k), m[1]).short)
                  => data_list[k][m[2]] = ""

\* C10 as stated: the reader emits one record per line after the header, in
\* source order, a line without any character included.
C10_OneRecordPerLine ==
    (ReadableFile /\ pc # "start") =>
        Len(data_list) = Len(file.lines) - 1

\* C10 amended: the reader emits one record per line after the header that
\* has at least one field, in source order, built from that line; a line
\* whose fields are all empty still yields a record, a line without any
\* character yields none.
C10_OneRecordPerNonBlankLine ==
    (ReadableFile /\ pc # "start") =>
        /\ Len(data_list) = Cardinality(DataLineIdx)
        /\ \A k \in 1..Len(data_list) :
              \A m \in MappedPairs :
                  LET cell == FieldOf(LineOf(k), m[1])
                  IN  data_list[k][m[2]] =
                          IF cell.absent THEN "" ELSE IF cell.short THEN PyNone ELSE cell.text

C10_Witness ==
    /\ pc # "start"
    /\ file.lines = << <<"Geschlecht", "Unbekannt", "IBAN">>, <<>>, <<"", "">> >>
    /\ Len(data_list) = 1
    /\ data_list[1]["sex"] = ""

\* the reader was called and ended with an exception of this kind
ReaderRaised(kind) ==
    /\ calls # <<>>
    /\ calls[1] = Call("read", 0, kind)

\* no output was produced: no canvas, no save, no file at pdf_path
NoOutput ==
    /\ ~canvas.created
    /\ CallsOf("Canvas") = {}
    /\ CallsOf("save") = {}
    /\ ~out.written

\* C14 as stated: a file with a byte sequence that is invalid in
\* windows-1252 makes the reader fail with UnicodeDecodeError, before any
\* output is produced.
C14_DecodeErrorKind ==
    (file.exists /\ ~file.decodable /\ pc # "start") =>
        /\ ReaderRaised("UnicodeDecodeError")
        /\ NoOutput

\* C15 as stated: a blank first line makes the reader fail with an error
\* kind of its own (ValueError, as its docstring says), which its caller can
\* tell from a generic parsing failure (a plain Exception).
C15_EmptyFileErrorKind ==
    ( /\ file.exists
      /\ file.decodable
      /\ file.lines # <<>>
      /\ StripsToEmpty(file.lines[1])
      /\ pc # "start" ) =>
        ReaderRaised("ValueError")

\* C16: when the input path does not exist the reader fails with
\* FileNotFoundError, not with a generic error, and no output is produced.
C16_NotFoundErrorKind ==
    (~file.exists /\ pc # "start") =>
        /\ ReaderRaised("FileNotFoundError")
        /\ pc = "raised"
        /\ NoOutput

C16_Witness ==
    /\ ~file.exists
    /\ pc = "raised"
    /\ ReaderRaised("FileNotFoundError")

\* C17: when main() has ended, the exit status is zero exactly when convert
\* returned normally; with a wrong argument count or an exception from
\* convert the status is not zero and a message has been printed (the usage
\* text, or the error that convert raised).
C17_ExitStatus ==
    cli_pc = "exited" =>
        /\ exit_status = 0 <=> (argv_len = 3 /\ pc = "done")
        /\ argv_len # 3 =>
              /\ exit_status = 1
              /\ pc = "start"
              /\ Len(printed) = 2
        /\ (argv_len = 3 /\ pc = "raised") =>
              /\ exit_status = 1
              /\ printed # <<>>
              /\ printed[Len(printed)] = <<"Error: ">> \o err.msg

C17_Witness ==
    /\ cli_pc = "exited"
    /\ pc = "raised"
    /\ exit_status = 1
    /\ Len(data_list) = 2

\* ------------------------------------------------------------ text fitting
\* the sizes of 6..base_font_size at which the text fits its box
FittingSizes ==
    { s \in 6..fit_in.base_font_size : Fits(text, s, fit_in.box_width, fit_in.padding) }

\* C11: for a text, a box width and a start size, the font size
\* draw_text_in_box ends with is the largest size of 6..start at which the
\* text is no wider than box_width - 2 * padding, and 6 if there is no such
\* size; a second call on the same arguments ends with the same size.
C11_ShrinkToFitSize ==
    LET best == IF FittingSizes # {} THEN Max(FittingSizes) ELSE 6
    IN  /\ fit_pc = "draw" => font_size = best
        /\ \A k \in 1..Len(chosen) : chosen[k] = best

C11_Witness ==
    /\ fit_in.base_font_size = 12
    /\ chosen = <<9, 9>>
    /\ ~Fits(text, 10, fit_in.box_width, fit_in.padding)

\* the inserted spaces of a formatted IBAN taken out again
Unspaced(d) == [ j \in 1..(Len(d) - Len(d) \div 5) |-> d[j + (j - 1) \div 4] ]

\* C12: a non-empty IBAN s of length L is drawn as its blocks of four
\* characters (the last block has the one to four characters left) with one
\* space between two blocks: ceil(L/4) - 1 spaces are inserted, every fifth
\* character of the drawn text is such a space, and the other characters are
\* those of s in their order.
C12_IbanFormatting ==
    (fit_in.kind = "iban" /\ Truthy(fit_in.value)) =>
        \A k \in 1..Len(draw_log) :
            LET s == fit_in.value
                d == draw_log[k].text
            IN  /\ Len(d) = Len(s) + ((Len(s) + 3) \div 4 - 1)
                /\ \A j \in 1..Len(d) : (j % 5 = 0) => d[j] = " "
                /\ Unspaced(d) = s

C12_Witness ==
    /\ fit_in.kind = "iban"
    /\ fit_in.value = << "D","E","8","9","3","7","0","4","0" >>
    /\ draw_log # <<>>
    /\ draw_log[1].text = << "D","E","8","9"," ","3","7","0","4"," ","0" >>

\* C18: every non-empty text is drawn at the size draw_text_in_box chose:
\* when drawString is called, the size set on the canvas is the final value
\* of font_size.
C18_DrawnAtChosenSize ==
    \A k \in 1..Len(draw_log) : draw_log[k].size = draw_log[k].font_size

\* the measurements of this call at which the text did not fit
FailedMeasurements ==
    { k \in 1..Len(measured) : ~Fits(text, measured[k], fit_in.box_width, fit_in.padding) }

\* C19: the loop of draw_text_in_box ends: font_size never grows, it is the
\* start size less one for every measurement that did not fit, it stays at 6
\* or above for a start size of 6 or more, each pass that stays in the loop
\* is one more measurement, and there are at most start - 6 measurements.
C19_LoopTerminates ==
    /\ [](fit_pc \in {"loop", "draw"} =>
            /\ font_size = fit_in.base_font_size - Cardinality(FailedMeasurements)
            /\ font_size >= 6
            /\ Len(measured) <= fit_in.base_font_size - 6
            /\ \A k \in 1..Len(measured) : measured[k] = fit_in.base_font_size - (k - 1))
    /\ [][fit_pc = "loop" =>
            /\ font_size' <= font_size
            /\ fit_pc' = "loop" =>
                  /\ font_size' = font_size - 1
                  /\ Len(measured') = Len(measured) + 1]_vars
    /\ (fit_pc = "loop" ~> fit_pc = "draw")

C19_Witness ==
    /\ fit_pc = "draw"
    /\ fit_in.base_font_size = 12
    /\ font_size = 6
    /\ Len(measured) = 6

\* ------------------------------------------------------------- check marks
\* the "X" drawn on a line, and the template drawn on it
MarkersOn(line) ==
    { k \in 1..Len(marks) : marks[k].line = line /\ marks[k].text = <<"X">> }
TemplateOn(line) ==
    marks[CHOOSE k \in 1..Len(marks) : marks[k].line = line /\ marks[k].text # <<"X">>]

\* the distance of the n-th "O" of a drawn text from its left end at 10pt
NthO(t, n) ==
    CHOOSE j \in 1..Len(t) :
        /\ t[j] = "O"
        /\ Cardinality({ m \in 1..j : t[m] = "O" }) = n
GlyphOffset(t, n) == stringWidth(SubSeq(t, 1, NthO(t, n) - 1), 10)

\* the number of the token a value is, whatever its case; 0 if it is none
TokenOf(v) ==
    IF v = NoneText THEN 0
    ELSE IF Lower(v) = Weiblich THEN 1
    ELSE IF Lower(v) = Maennlich THEN 2
    ELSE IF Lower(v) = Divers THEN 3
    ELSE 0

\* one gender line is right: one "X" on the "O" of the value's token, or none
GenderLineRight(line, v) ==
    IF TokenOf(v) = 0
    THEN MarkersOn(line) = {}
    ELSE /\ Cardinality(MarkersOn(line)) = 1
         /\ \A k \in MarkersOn(line) :
                marks[k].dx = TemplateOn(line).dx
                              + GlyphOffset(TemplateOn(line).text, TokenOf(v))

\* C13: on the gender line of the member ('sex') and on that of the guardian
\* ('applicant_sex'), a value that is 'weiblich', 'männlich' or 'divers' in
\* any case gets exactly one "X", on the first, second or third "O" of the
\* template; every other value, empty and missing included, gets no "X" and
\* the drawing goes on to the next section.
C13_GenderOverprint ==
    /\ mark_pc \in {"family_member", "discount", "guardian_gender", "done"} =>
          GenderLineRight("member_gender", data_dict.sex)
    /\ mark_pc = "done" => GenderLineRight("guardian_gender", data_dict.applicant_sex)

C13_Witness ==
    /\ mark_pc = "done"
    /\ data_dict.sex = << "D","I","V","E","R","S" >>
    /\ data_dict.applicant_sex = << "M","ä","n","n","l","i","c","h" >>
    /\ Cardinality(MarkersOn("member_gender")) = 1
    /\ Cardinality(MarkersOn("guardian_gender")) = 1

\* C20: an "X" is drawn on the "O" that begins the first line of the
\* discount box exactly when the lower-cased discount of the record is 'ja';
\* every other value, empty and missing included, gets no "X" and the
\* drawing goes on to the next section.
C20_DiscountOverprint ==
    mark_pc \in {"guardian_gender", "done"} =>
          /\ MarkersOn("discount") # {} <=>
                (data_dict.discount # NoneText /\ Lower(data_dict.discount) = Ja)
          /\ Cardinality(MarkersOn("discount")) <= 1
          /\ \A k \in MarkersOn("discount") :
                /\ marks[k].dx = TemplateOn("discount").dx
                /\ TemplateOn("discount").text[1] = "O"

C20_Witness ==
    /\ mark_pc = "done"
    /\ data_dict.discount = << "J","A" >>
    /\ MarkersOn("discount") # {}

\* ------------------------------------------------------- names, empty texts
\* a name part that is there: neither missing nor empty
Present(v) == v # NoneText /\ v # <<>>

\* the name text the record's last and first name should give
ExpectedName(last_name, first_name) ==
    IF Present(last_name) /\ Present(first_name)
    THEN last_name \o << ",", " " >> \o first_name
    ELSE IF Present(last_name) THEN last_name
    ELSE IF Present(first_name) THEN first_name
    ELSE <<>>

\* C24: the name drawn is 'last, first' when both are there, the one that is
\* there and nothing else when only one is, and nothing is drawn when both
\* are empty or missing (a data row shorter than the header gives missing
\* values).
C24_NameText ==
    fit_in.kind = "name" =>
        LET want == ExpectedName(fit_in.value[1], fit_in.value[2])
        IN  /\ \A k \in 1..Len(draw_log) : draw_log[k].text = want
            /\ (fit_pc = "returned" /\ want # <<>>) => draw_log # <<>>
            /\ want = <<>> => draw_log = <<>>

\* C25: draw_text_in_box called with an empty or missing text does nothing:
\* nothing is measured or drawn, and the step leaves the font size of the
\* canvas as it was.
C25_EmptyTextNoOp ==
    /\ []((fit_in.kind = "plain" /\ fit_in.value \in {<<>>, NoneText}) =>
            /\ draw_log = <<>>
            /\ measured = <<>>
            /\ chosen = <<>>
            /\ fit_pc \in {"field", "returned"})
    /\ [][(fit_in.kind = "plain" /\ fit_in.value \in {<<>>, NoneText}) =>
            /\ c_font' = c_font
            /\ draw_log' = draw_log]_vars

C25_Witness ==
    /\ fit_in.kind = "plain"
    /\ fit_in.value = NoneText
    /\ fit_pc = "returned"
    /\ runs = 2
    /\ draw_log = <<>>

\* ------------------------------------------------ independence of the fields
\* everything the four sections draw for a record, in the order of the code
PageMarks(r) ==
    member_gender_marks(r) \o family_member_marks(r)
    \o discount_marks(r, family_member_font(r)) \o guardian_gender_marks(r)

\* the decision taken for a field, read from what was drawn: where the "X"
\* of its line are, or whether the family member box is there
DecisionOf(field, ms) ==
    LET XsOn(line) == { ms[k].dx : k \in { j \in 1..Len(ms) :
                                             ms[j].line = line /\ ms[j].text = <<"X">> } }
    IN  CASE field = "sex" -> XsOn("member_gender")
          [] field = "applicant_sex" -> XsOn("guardian_gender")
          [] field = "discount" -> XsOn("discount")
          [] field = "family_member" ->
                IF \E k \in 1..Len(ms) : ms[k].line = "family_member" /\ ms[k].op = "rect"
                THEN {0} ELSE {}

MarkFields == {"sex", "applicant_sex", "discount", "family_member"}

ValuesOf(field) ==
    CASE field \in {"sex", "applicant_sex"} -> SexValues
      [] field = "discount" -> DiscountValues
      [] field = "family_member" -> FamilyValues

\* C21: the decisions of the page are independent: for each of the fields
\* sex, applicant_sex, discount and family_member, a record that differs
\* from the drawn one in another field gets the same decision for this field
\* (the same "X" on its line, the same presence of the family member box).
C21_FieldsIndependent ==
    mark_pc = "done" =>
        /\ marks = PageMarks(data_dict)
        /\ \A f \in MarkFields : \A g \in MarkFields \ {f} : \A v \in ValuesOf(g) :
              DecisionOf(f, PageMarks([data_dict EXCEPT ![g] = v])) = DecisionOf(f, marks)

C21_Witness ==
    /\ mark_pc = "done"
    /\ data_dict.family_member = << "W", "W" >>
    /\ data_dict.discount = << "J", "a" >>
    /\ data_dict.sex = Weiblich
    /\ data_dict.applicant_sex = <<>>
    /\ DecisionOf("discount", marks) = {0}
    /\ DecisionOf("family_member", marks) = {0}
    /\ DecisionOf("applicant_sex", marks) = {}

\* ------------------------------------------------------- the desktop shell
\* C26: the Convert button is enabled exactly when a file is selected, after
\* any sequence of open dialogs (answered or cancelled) and conversions; once
\* a file is selected, no step disables the button or clears the selection.
C26_ButtonIffSelected ==
    /\ [](convert_button = "normal" <=> selected_file_path # "")
    /\ [](convert_button \in {"normal", "disabled"})
    /\ [][selected_file_path # "" =>
            /\ selected_file_path' # ""
            /\ convert_button' = "normal"]_vars

C26_Witness ==
    /\ convert_button = "normal"
    /\ selected_file_path = "b.csv"
    /\ last = [op |-> "convert_file", answer |-> ""]

\* C27: cancelling a dialog changes no path: a cancelled open dialog leaves
\* the selected path, the saved path, the button and the status as they were;
\* a cancelled save dialog or a conversion that raises leaves both paths as
\* they were; the saved path is assigned only in a step whose conversion call
\* returned, and then it is the path that call wrote.
C27_CancelChangesNoPath ==
    /\ [][open_file_dialog("") =>
            UNCHANGED <<selected_file_path, save_file_path, convert_button, status>>]_vars
    /\ [][((\E raises \in BOOLEAN : convert_file("", raises))
            \/ (\E filename \in SavePaths : convert_file(filename, TRUE))) =>
            UNCHANGED <<selected_file_path, save_file_path>>]_vars
    /\ [][save_file_path' # save_file_path =>
            /\ Len(conversions') = Len(conversions) + 1
            /\ conversions'[Len(conversions')].pdf = save_file_path'
            /\ dialog' = "none"
            /\ status'.color = "#00ff00"]_vars

C27_Witness ==
    /\ last = [op |-> "open_file_dialog", answer |-> ""]
    /\ selected_file_path = "a.csv"
    /\ status = [text |-> <<"Conversion cancelled by user">>, color |-> "#ffaa00"]

\* ------------------------------------------------------------ Excel flow
\* a data row with a cell that is neither empty nor blanks only
NonBlankRow(row) == \E k \in 1..Len(row) : Strip(CellText(row[k])) # ""

\* _read_excel_data has returned its list
ExcelRead ==
    \/ xl_pc \in {"pages", "combine", "returned"}
    \/ xl_pc = "raised" /\ xl_err = ExcelEmptyError

\* C22: the Excel reader drops exactly the rows whose cells are all empty or
\* blanks only: the records it returns are those of the rows with a
\* non-blank cell, in the order of the sheet.
C22_BlankRowsDropped ==
    ExcelRead =>
        LET kept == SelectSeq(sheet.rows, NonBlankRow)
        IN  /\ Len(xl_data) = Len(kept)
            /\ \A k \in 1..Len(xl_data) : xl_data[k] = row_data(sheet.headers, kept[k])

\* the place of the first event of a kind in xl_log, 0 if there is none
FirstEvent(ev) ==
    IF \E k \in 1..Len(xl_log) : xl_log[k].ev = ev
    THEN CHOOSE k \in 1..Len(xl_log) :
            /\ xl_log[k].ev = ev
            /\ \A j \in 1..(k - 1) : xl_log[j].ev # ev
    ELSE 0

\* C23: in the Excel flow the page of a record is in its own file as soon as
\* the record has been processed, before the next one is; the output file is
\* written only after all records have been processed, and holds their pages
\* in the order of the records.
C23_PagesThenCombine ==
    /\ [](xl_pc \in {"pages", "combine"} =>
            /\ Len(temp_dir.files) = Len(pdf_files)
            /\ \A k \in 1..Len(pdf_files) :
                  /\ temp_dir.files[k] = [name |-> k, page |-> xl_data[k]]
                  /\ pdf_files[k] = k
            /\ ~output_file.written)
    /\ [](output_file.written =>
            /\ output_file.pages = xl_data
            /\ Len(pdf_files) = Len(xl_data)
            /\ \A k \in 1..Len(xl_log) :
                  xl_log[k].ev = "page" => k < FirstEvent("combine"))
    /\ [][xl_pc = "pages" /\ xl_pc' \in {"pages", "combine"} =>
            /\ Len(temp_dir'.files) = Len(temp_dir.files) + 1
            /\ output_file' = output_file]_vars

C23_Witness ==
    /\ xl_pc = "returned"
    /\ Len(output_file.pages) = 2
    /\ output_file.pages[1] # output_file.pages[2]

\* C28: when convert_excel_to_pdf has ended, by returning or by raising in the
\* reading, the creation of a page or the combination, the clean-up has run
\* on the temporary directory of the run: the directory and its page files
\* are gone, unless their removal failed.
C28_TempFilesCleaned ==
    (xl_pc \in {"returned", "raised"} /\ temp_dir.path # PyNone) =>
        /\ temp_dir.rmtree \in {"removed", "failed"}
        /\ temp_dir.rmtree = "removed" => (~temp_dir.exists /\ temp_dir.files = <<>>)
        /\ xl_log[Len(xl_log)] = XlEvent("cleanup", 0)

C28_Witness ==
    /\ xl_pc = "raised"
    /\ Len(pdf_files) = 1
    /\ Len(xl_data) = 2
    /\ temp_dir.rmtree = "removed"
    /\ ~temp_dir.exists

\* C29: every exception that leaves convert_excel_to_pdf is a ConversionError
\* (one raised inside is raised again as it is, any other is wrapped), and a
\* sheet without non-blank data rows raises one before a page file or the
\* output file is written.
C29_OnlyConversionError ==
    xl_pc = "raised" =>
        /\ xl_err.kind = "ConversionError"
        /\ SelectSeq(sheet.rows, NonBlankRow) = <<>> =>
              /\ pdf_files = <<>>
              /\ ~output_file.written
              /\ \A k \in 1..Len(xl_log) : xl_log[k].ev # "page"

====
